---- MODULE Spec2Model ----
(***************************************************************************)
(* vo2pandoc.py: conversion of a tab-indented Vim Outliner document into   *)
(* pandoc markdown.  A line is a sequence of one-character strings; the    *)
(* recursion of processSection is an explicit stack of frames.             *)
(***************************************************************************)
EXTENDS Integers, Sequences, FiniteSets, TLC

VARIABLES lines, stack, call, ret, pc, err, stdout, ev, visits, steps

vars == <<lines, stack, call, ret, pc, err, stdout, ev, visits, steps>>

(***************************************************************************)
(* Bounds of the model.                                                    *)
(***************************************************************************)
MaxLines == 2
MaxDepth == 2

(***************************************************************************)
(* Python values.                                                          *)
(***************************************************************************)
\* the value getLevel returns when it falls off its loop (Python's None)
NoneLevel == -2
\* the end-of-input sentinel of nextIdx
EndIdx == -1

Whitespace == {"\t", " ", "\n"}

ContentMarkers == {":", ";", ">", "<", "|"}

RECURSIVE lstrip(_)
lstrip(s) ==
    IF s = <<>> THEN <<>>
    ELSE IF s[1] \in Whitespace THEN lstrip(Tail(s)) ELSE s

RECURSIVE rstrip(_)
rstrip(s) ==
    IF s = <<>> THEN <<>>
    ELSE IF s[Len(s)] \in Whitespace THEN rstrip(SubSeq(s, 1, Len(s) - 1)) ELSE s

\* str.strip()
strip(s) == rstrip(lstrip(s))

\* str.startswith(c) for a one-character prefix
startswith(s, c) == Len(s) > 0 /\ s[1] = c

\* s[n:] for n >= 0
SliceFrom(s, n) == IF n >= Len(s) THEN <<>> ELSE SubSeq(s, n + 1, Len(s))

\* n * c
Repeat(c, n) == [i \in 1..n |-> c]

RECURSIVE CountTabs(_)
CountTabs(line) ==
    IF line # <<>> /\ line[1] = "\t" THEN 1 + CountTabs(Tail(line)) ELSE 0

getLevel(line) ==
    IF CountTabs(line) = Len(line) THEN NoneLevel ELSE CountTabs(line)

\* lines[i] with Python's indexing: i counts from 0, a negative i from the end
InRange(ls, i) == i >= -Len(ls) /\ i < Len(ls)
At(ls, i) == IF i >= 0 THEN ls[i + 1] ELSE ls[Len(ls) + i + 1]

SetMin(S) == CHOOSE x \in S : \A y \in S : x <= y

nextIdx(idx, ls) ==
    IF idx < 0 THEN idx
    ELSE LET later == {i \in (idx + 1)..(Len(ls) - 1) : Len(strip(At(ls, i))) > 0}
         IN  IF later = {} THEN EndIdx ELSE SetMin(later)

makeHeader(line, level) == Repeat("#", level + 1) \o line

RECURSIVE Flatten(_)
Flatten(ss) == IF ss = <<>> THEN <<>> ELSE Head(ss) \o Flatten(Tail(ss))

\* an item is [line, content]; the label line of an item is never blank
renderHeaders(items) ==
    Flatten([i \in 1..Len(items) |->
        <<makeHeader(strip(items[i].line), getLevel(items[i].line))>>
            \o items[i].content])

renderListNoIndent(items) ==
    Flatten([i \in 1..Len(items) |->
        <<(<<"*", " ">> \o strip(items[i].line))>> \o items[i].content])

renderList(items) ==
    Flatten([i \in 1..Len(items) |->
        <<(<<"*", " ">> \o strip(items[i].line))>>
            \o [j \in 1..Len(items[i].content) |->
                    <<" ", " ", " ", " ">> \o items[i].content[j]]])

\* renderHeaders applied to a list of strings, as the mid-group flush does:
\* "for [line, content] in items" unpacks each string, which raises ValueError
\* unless the string has exactly two characters
RECURSIVE renderHeadersOfLines(_, _)
renderHeadersOfLines(strs, out) ==
    IF strs = <<>> THEN [err |-> "none", out |-> out]
    ELSE LET e == Head(strs) IN
         IF Len(e) # 2 THEN [err |-> "ValueError", out |-> <<>>]
         ELSE IF getLevel(<<e[1]>>) = NoneLevel THEN [err |-> "TypeError", out |-> <<>>]
         ELSE renderHeadersOfLines(Tail(strs),
                  out \o <<makeHeader(strip(<<e[1]>>), getLevel(<<e[1]>>)), <<e[2]>> >>)

RECURSIVE BodyTextLoop(_, _, _)
BodyTextLoop(idx, ls, out) ==
    IF idx >= 0 /\ startswith(strip(At(ls, idx)), ":")
    THEN BodyTextLoop(nextIdx(idx, ls), ls,
                      Append(out, strip(SliceFrom(strip(At(ls, idx)), 1))))
    ELSE [out |-> Append(out, <<>>), idx |-> idx, err |-> "none"]

processBodyTextNoLead(idx, ls) == BodyTextLoop(idx, ls, <<>>)

processBodyTextStuck(idx, ls) == [out |-> << <<>>, <<>> >>, idx |-> idx, err |-> "none"]

processBodyText(idx, ls) == BodyTextLoop(idx, ls, << <<>> >>)

RECURSIVE BodyPreTextLoop(_, _, _)
BodyPreTextLoop(idx, ls, out) ==
    IF idx >= 0 /\ startswith(strip(At(ls, idx)), ";")
    THEN BodyPreTextLoop(nextIdx(idx, ls), ls,
             Append(out, <<"|", " ">> \o strip(SliceFrom(strip(At(ls, idx)), 1))))
    ELSE [out |-> Append(out, <<>>), idx |-> idx, err |-> "none"]

processBodyPreText(idx, ls) == BodyPreTextLoop(idx, ls, << <<>> >>)

RECURSIVE UserTextLoop(_, _, _)
UserTextLoop(idx, ls, out) ==
    IF idx >= 0 /\ startswith(strip(At(ls, idx)), ">")
    THEN UserTextLoop(nextIdx(idx, ls), ls, Append(out, strip(At(ls, idx))))
    ELSE [out |-> Append(out, <<>>), idx |-> idx, err |-> "none"]

processUserText(idx, ls) == UserTextLoop(idx, ls, <<>>)

RECURSIVE UserPreTextLoop(_, _, _)
UserPreTextLoop(idx, ls, out) ==
    IF idx >= 0 /\ startswith(strip(At(ls, idx)), "<")
    THEN UserPreTextLoop(nextIdx(idx, ls), ls,
             Append(out, SliceFrom(strip(At(ls, idx)), 1)))
    ELSE [out |-> Append(out, <<"~", "~", "~">>), idx |-> idx, err |-> "none"]

processUserPreText(idx, ls) == UserPreTextLoop(idx, ls, << <<"~", "~", "~">> >>)

\* re.sub('[^\|]', "-", line)
Dashes(line) == [i \in 1..Len(line) |-> IF line[i] = "|" THEN "|" ELSE "-"]

\* line[1] of a one-character table line raises IndexError
RECURSIVE TableLoop(_, _, _)
TableLoop(idx, ls, out) ==
    IF idx >= 0 /\ startswith(strip(At(ls, idx)), "|")
    THEN LET line == strip(At(ls, idx)) IN
         IF Len(line) < 2 THEN [out |-> <<>>, idx |-> idx, err |-> "IndexError"]
         ELSE IF line[2] = "|"
              THEN LET hdr == <<"|", " ">> \o SliceFrom(line, 2) IN
                   TableLoop(nextIdx(idx, ls), ls, out \o <<hdr, Dashes(hdr)>>)
              ELSE TableLoop(nextIdx(idx, ls), ls, Append(out, line))
    ELSE [out |-> Append(out, <<>>), idx |-> idx, err |-> "none"]

processTable(idx, ls) == TableLoop(idx, ls, <<>>)

\* print("Error: Checkboxes not implemented")
CheckboxError ==
    <<"E","r","r","o","r",":"," ","C","h","e","c","k","b","o","x","e","s"," ",
      "n","o","t"," ","i","m","p","l","e","m","e","n","t","e","d">>

(***************************************************************************)
(* Inputs: what file.readlines() can return.  Every line ends with a       *)
(* newline, except possibly the last one, which is then not empty.         *)
(***************************************************************************)
Tabs(d) == Repeat("\t", d)

Bodies ==
    { <<>>, <<"a">>, <<":", " ", "x">>, <<";", "y">>, <<">", "q">>, <<"<", " ", "r">>,
      <<"|", "|", "h">>, <<"|">>, <<"[", "_", "]">> }

LineSet == {Tabs(d) \o b \o <<"\n">> : d \in 0..MaxDepth, b \in Bodies}

DropNewline(ls) ==
    [i \in 1..Len(ls) |->
        IF i = Len(ls) THEN SubSeq(ls[i], 1, Len(ls[i]) - 1) ELSE ls[i]]

ScenarioA == << <<"\t", "H", "e", "l", "l", "o">> >>

ScenarioB ==
    << <<"\t", "T", "i", "t", "l", "e", "\n">>,
       <<"\t", ":", "S", "o", "m", "e", " ", "t", "e", "x", "t">> >>

ScenarioC ==
    << <<"\t", "A", "\n">>, <<"\t", "\t", "B", "\n">>, <<"\t", "\t", "\t", "C", "\n">>,
       <<"\t", "D", "\n">>, <<"\t", "\t", "E", "\n">> >>

\* a heading-mode group interrupted by a content block, then a checkbox
ScenarioD ==
    << <<"A", "\n">>, <<"\t", ":", "x", "\n">>, <<";", "y", "\n">>, <<"[", "z", "\n">> >>

\* body text two levels below the first heading
NestedBodyText ==
    << <<"A", "\n">>, <<"\t", "B", "\n">>, <<"\t", "\t", ":", "x", "\n">> >>

\* a body-text run that goes on at the depth of the heading above it
BodyTextRun ==
    << <<"A", "\n">>, <<"\t", ":", "x", "\n">>, <<":", "y", "\n">> >>

\* a heading-mode group interrupted by a content block
HeadingFlush ==
    << <<"A", "\n">>, <<"\t", ":", "x", "\n">>, <<";", "y", "\n">> >>

\* a list-mode group interrupted by a table, then a further sibling
ListFlush ==
    << <<"A", "\n">>, <<"\t", "B", "\n">>, <<"|", "|", "h", "|", "k", "\n">>,
       <<"|", "1", "|", "2", "\n">>, <<"C", "\n">> >>

Scenarios ==
    {ScenarioA, ScenarioB, ScenarioC, ScenarioD,
     NestedBodyText, BodyTextRun, HeadingFlush, ListFlush}

\* ls is t, or t with the newline of its last line missing
ReadFrom(t, ls) ==
    \/ ls = t
    \/ t # <<>> /\ Len(t[Len(t)]) > 1 /\ ls = DropNewline(t)

IsInput(ls) ==
    \/ \E n \in 0..MaxLines : \E t \in [1..n -> LineSet] : ReadFrom(t, ls)
    \/ ls \in Scenarios

(***************************************************************************)
(* State.                                                                  *)
(***************************************************************************)
NoRet == [out |-> <<>>, idx |-> EndIdx, isList |-> TRUE, consumed |-> {}]
NoCall == [idx |-> EndIdx, level |-> -1]

\* what the last step did (history, read by the properties only)
NoEv ==
    [kind |-> "init", flush |-> "none", flushErr |-> "none", flushOut |-> <<>>,
     pending |-> <<>>, forced |-> FALSE, oldIdx |-> EndIdx, newIdx |-> EndIdx,
     start |-> EndIdx, level |-> -1, consumed |-> {}, isList |-> TRUE,
     textout |-> <<>>, outBefore |-> <<>>]

Init ==
    /\ IsInput(lines)
    /\ stack = <<>>
    /\ call = NoCall
    /\ ret = NoRet
    /\ pc = "main"
    /\ err = "none"
    /\ stdout = <<>>
    /\ ev = NoEv
    /\ visits = [i \in 0..(Len(lines) - 1) |-> 0]
    /\ steps = 0

Top == stack[Len(stack)]
Pop == SubSeq(stack, 1, Len(stack) - 1)
ReplaceTop(f) == [stack EXCEPT ![Len(stack)] = f]

Tick == steps' = steps + 1

Fail(e) ==
    /\ pc' = "failed"
    /\ err' = e

\* non-blank lines with index in from..(to-1), or from..end when to is the sentinel
Between(from, to) ==
    {i \in from..(IF to < 0 THEN Len(lines) - 1 ELSE to - 1) :
        Len(strip(At(lines, i))) > 0}

Visit(S) == visits' = [i \in DOMAIN visits |-> IF i \in S THEN visits[i] + 1 ELSE visits[i]]

(***************************************************************************)
(* main: [out, idx, isList] = processSection(0, lines, -1)                 *)
(***************************************************************************)
AtMain == pc = "main"

Main ==
    /\ AtMain
    /\ call' = [idx |-> 0, level |-> -1]
    /\ pc' = "enter"
    /\ ev' = [NoEv EXCEPT !.kind = "main"]
    /\ Tick
    /\ UNCHANGED <<lines, stack, ret, err, stdout, visits>>

\* lines[idx] on an empty list
AtEmptyInput == pc = "enter" /\ ~InRange(lines, call.idx)

EmptyInput ==
    /\ AtEmptyInput
    /\ Fail("IndexError")
    /\ ev' = [NoEv EXCEPT !.kind = "fail"]
    /\ Tick
    /\ UNCHANGED <<lines, stack, call, ret, stdout, visits>>

EnterCond == getLevel(At(lines, call.idx)) > call.level /\ call.idx >= 0

AtEnterSection ==
    /\ pc = "enter"
    /\ InRange(lines, call.idx)
    /\ getLevel(At(lines, call.idx)) # NoneLevel
    /\ EnterCond

EnterSection ==
    /\ AtEnterSection
    /\ stack' = Append(stack,
         [idx |-> call.idx, level |-> call.level,
          curlevel |-> getLevel(At(lines, call.idx)),
          out |-> <<>>, isList |-> TRUE, firstItem |-> TRUE, makeList |-> FALSE,
          items |-> <<>>, curline |-> <<>>,
          start |-> call.idx, consumed |-> {}, forced |-> FALSE])
    /\ pc' = "loop"
    /\ ev' = [NoEv EXCEPT !.kind = "enter", !.start = call.idx, !.level = call.level]
    /\ Tick
    /\ UNCHANGED <<lines, call, ret, err, stdout, visits>>

\* the else branch: "section is empty"
AtEmptySection ==
    /\ pc = "enter"
    /\ InRange(lines, call.idx)
    /\ getLevel(At(lines, call.idx)) # NoneLevel
    /\ ~EnterCond

EmptySection ==
    /\ AtEmptySection
    /\ ret' = [out |-> << <<>> >>, idx |-> call.idx, isList |-> TRUE, consumed |-> {}]
    /\ pc' = "ret"
    /\ ev' = [NoEv EXCEPT !.kind = "empty", !.start = call.idx, !.level = call.level,
                          !.newIdx = call.idx]
    /\ Tick
    /\ UNCHANGED <<lines, stack, call, err, stdout, visits>>

\* the value compared at the current position
Compared ==
    IF pc = "enter" /\ InRange(lines, call.idx) THEN getLevel(At(lines, call.idx))
    ELSE IF pc = "loop" THEN Top.curlevel
    ELSE 0

\* "curlevel > level" with curlevel = None raises TypeError (Python 3)
AtNoneTypeError == pc \in {"enter", "loop"} /\ Compared = NoneLevel

NoneTypeError ==
    /\ AtNoneTypeError
    /\ Fail("TypeError")
    /\ ev' = [NoEv EXCEPT !.kind = "fail"]
    /\ Tick
    /\ UNCHANGED <<lines, stack, call, ret, stdout, visits>>

LoopCond == Top.curlevel # NoneLevel /\ Top.curlevel > Top.level /\ Top.idx >= 0

\* curline.strip()[0] on a blank line
AtBlankLine == pc = "loop" /\ LoopCond /\ strip(At(lines, Top.idx)) = <<>>

BlankLine ==
    /\ AtBlankLine
    /\ Fail("IndexError")
    /\ ev' = [NoEv EXCEPT !.kind = "fail"]
    /\ Tick
    /\ UNCHANGED <<lines, stack, call, ret, stdout, visits>>

start == strip(At(lines, Top.idx))[1]

AtLine == pc = "loop" /\ LoopCond /\ strip(At(lines, Top.idx)) # <<>>

\* the flush of the pending items when a content block is reached
MidFlush(f) ==
    IF f.firstItem THEN [kind |-> "none", err |-> "none", out |-> <<>>]
    ELSE IF f.makeList THEN [kind |-> "list", err |-> "none", out |-> renderList(f.items)]
    ELSE LET r == renderHeadersOfLines(renderList(f.items), <<>>)
         IN  [kind |-> "headersOfList", err |-> r.err, out |-> r.out]

\* one content-block branch of the loop, with lines 219-220
ContentBlock(marker, r) ==
    /\ AtLine
    /\ start = marker
    /\ LET f == Top
           fl == MidFlush(f)
           e == [NoEv EXCEPT !.kind = "content", !.flush = fl.kind, !.flushErr = fl.err,
                             !.flushOut = fl.out,
                             !.pending = IF f.firstItem THEN <<>> ELSE f.items,
                             !.forced = f.forced, !.oldIdx = f.idx, !.newIdx = r.idx,
                             !.start = f.start, !.level = f.level,
                             !.consumed = Between(f.idx, r.idx),
                             !.textout = r.out, !.outBefore = f.out]
           failure == IF fl.err # "none" THEN fl.err ELSE r.err
           failed == [e EXCEPT !.newIdx = f.idx, !.consumed = {}, !.textout = <<>>]
           g == [f EXCEPT !.isList = FALSE, !.firstItem = TRUE,
                          !.out = f.out \o fl.out \o r.out,
                          !.curlevel = getLevel(At(lines, r.idx)),
                          !.idx = r.idx,
                          !.forced = TRUE,
                          !.consumed = f.consumed \cup Between(f.idx, r.idx)]
       IN
       /\ pc' = IF failure # "none" THEN "failed" ELSE pc
       /\ err' = IF failure # "none" THEN failure ELSE err
       /\ stack' = IF failure # "none" THEN stack ELSE ReplaceTop(g)
       /\ ev' = IF failure # "none" THEN failed ELSE e
       /\ Visit(IF failure # "none" THEN {} ELSE Between(f.idx, r.idx))
    /\ Tick
    /\ UNCHANGED <<lines, call, ret, stdout>>

BodyText == ContentBlock(":", processBodyText(Top.idx, lines))
BodyPreText == ContentBlock(";", processBodyPreText(Top.idx, lines))
UserText == ContentBlock(">", processUserText(Top.idx, lines))
UserPreText == ContentBlock("<", processUserPreText(Top.idx, lines))
Table == ContentBlock("|", processTable(Top.idx, lines))

\* print the error and sys.exit()
Checkbox ==
    /\ AtLine
    /\ start = "["
    /\ stdout' = Append(stdout, CheckboxError)
    /\ pc' = "exit"
    /\ ev' = [NoEv EXCEPT !.kind = "checkbox", !.oldIdx = Top.idx]
    /\ Visit({Top.idx})
    /\ Tick
    /\ UNCHANGED <<lines, stack, call, ret, err>>

\* the call processSection(nextIdx(idx, lines), lines, curlevel)
Structural ==
    /\ AtLine
    /\ start \notin ContentMarkers \cup {"["}
    /\ call' = [idx |-> nextIdx(Top.idx, lines), level |-> Top.curlevel]
    /\ stack' = ReplaceTop([Top EXCEPT !.curline = At(lines, Top.idx)])
    /\ pc' = "enter"
    /\ ev' = [NoEv EXCEPT !.kind = "call", !.oldIdx = Top.idx]
    /\ Visit({Top.idx})
    /\ Tick
    /\ UNCHANGED <<lines, ret, err, stdout>>

\* the caller after the recursive call returned: lines 209-220
AtResumeSection == pc = "ret" /\ stack # <<>>

ResumeSection ==
    /\ AtResumeSection
    /\ LET f == Top
           seeded == f.firstItem
           g == [f EXCEPT
                   !.items = Append(IF seeded THEN <<>> ELSE f.items,
                                    [line |-> f.curline, content |-> ret.out]),
                   !.firstItem = FALSE,
                   !.makeList = IF seeded THEN ret.isList
                                ELSE IF ~ret.isList THEN FALSE ELSE f.makeList,
                   !.isList = IF ~seeded /\ ~ret.isList THEN FALSE ELSE f.isList,
                   !.curlevel = getLevel(At(lines, ret.idx)),
                   !.idx = ret.idx,
                   !.forced = f.forced \/ ~ret.isList,
                   !.consumed = f.consumed \cup {f.idx} \cup ret.consumed]
       IN
       /\ stack' = ReplaceTop(g)
       /\ ev' = [NoEv EXCEPT !.kind = "resume", !.oldIdx = f.idx, !.newIdx = ret.idx,
                             !.start = f.start, !.level = f.level, !.forced = f.forced]
    /\ pc' = "loop"
    /\ Tick
    /\ UNCHANGED <<lines, call, ret, err, stdout, visits>>

\* the loop has ended: the final flush and the return
AtEndSection == pc = "loop" /\ Top.curlevel # NoneLevel /\ ~LoopCond

EndSection ==
    /\ AtEndSection
    /\ LET f == Top
           fl == IF f.firstItem THEN [kind |-> "none", out |-> <<>>]
                 ELSE IF f.makeList THEN [kind |-> "list", out |-> renderList(f.items)]
                 ELSE [kind |-> "headers", out |-> renderHeaders(f.items)]
       IN
       /\ ret' = [out |-> f.out \o fl.out, idx |-> f.idx, isList |-> f.isList,
                  consumed |-> f.consumed]
       /\ ev' = [NoEv EXCEPT !.kind = "return", !.flush = fl.kind, !.flushOut = fl.out,
                             !.pending = IF f.firstItem THEN <<>> ELSE f.items,
                             !.forced = f.forced, !.newIdx = f.idx,
                             !.start = f.start, !.level = f.level,
                             !.consumed = f.consumed, !.isList = f.isList,
                             !.outBefore = f.out]
    /\ stack' = Pop
    /\ pc' = "ret"
    /\ Tick
    /\ UNCHANGED <<lines, call, err, stdout, visits>>

\* main: for line in out: print(line)
AtPrintOut == pc = "ret" /\ stack = <<>>

PrintOut ==
    /\ AtPrintOut
    /\ stdout' = stdout \o ret.out
    /\ pc' = "done"
    /\ ev' = [NoEv EXCEPT !.kind = "print"]
    /\ Tick
    /\ UNCHANGED <<lines, stack, call, ret, err, visits>>

Next ==
    \/ Main
    \/ EmptyInput
    \/ EnterSection
    \/ EmptySection
    \/ NoneTypeError
    \/ BlankLine
    \/ BodyText
    \/ BodyPreText
    \/ UserText
    \/ UserPreText
    \/ Table
    \/ Checkbox
    \/ Structural
    \/ ResumeSection
    \/ EndSection
    \/ PrintOut

\* some step of the program can be taken
CanStep ==
    \/ AtMain
    \/ AtEmptyInput
    \/ AtEnterSection
    \/ AtEmptySection
    \/ AtNoneTypeError
    \/ AtBlankLine
    \/ AtLine
    \/ AtResumeSection
    \/ AtEndSection
    \/ AtPrintOut

Spec == Init /\ [][Next]_vars

(***************************************************************************)
(* The input as an indentation tree.                                       *)
(***************************************************************************)
Terminal == {"done", "failed", "exit"}

NonBlank == {i \in 0..(Len(lines) - 1) : strip(At(lines, i)) # <<>>}
Depth(i) == CountTabs(At(lines, i))
Marker(i) == strip(At(lines, i))[1]
Label(i) == strip(At(lines, i))
IsContent(i) == Marker(i) \in ContentMarkers
IsCheckbox(i) == Marker(i) = "["
IsStructural(i) == ~IsContent(i) /\ ~IsCheckbox(i)

SetMax(S) == CHOOSE x \in S : \A y \in S : x >= y

\* the lines above i that are less indented than i; the nearest is i's parent
Shallower(i) == {j \in NonBlank : j < i /\ Depth(j) < Depth(i)}

RECURSIVE Ancestors(_)
Ancestors(i) ==
    IF Shallower(i) = {} THEN {}
    ELSE {SetMax(Shallower(i))} \cup Ancestors(SetMax(Shallower(i)))

RECURSIVE Ascending(_)
Ascending(S) ==
    IF S = {} THEN <<>> ELSE <<SetMin(S)>> \o Ascending(S \ {SetMin(S)})

NotWhite(l) == strip(l) # <<>>
IsHeading(l) == startswith(l, "#")
IsBullet(l) == Len(lstrip(l)) >= 2 /\ lstrip(l)[1] = "*" /\ lstrip(l)[2] = " "

FirstNonBlank == lines # <<>> /\ strip(lines[1]) # <<>>

(***************************************************************************)
(* C1                                                                      *)
(***************************************************************************)
AllStructural == NonBlank # {} /\ \A i \in NonBlank : IsStructural(i)

ExpectedList ==
    LET order == Ascending(NonBlank) IN
    [n \in 1..Len(order) |->
        Repeat(" ", 4 * Cardinality(Ancestors(order[n]))) \o <<"*", " ">> \o Label(order[n])]

\* C1: an input whose non-blank lines are all structural is converted without
\* failure, and its output, whitespace-only lines aside, is the bulleted list
\* of its lines in document order, each indented four spaces per ancestor.
C1_StructuralOnlyIsOneList ==
    AllStructural =>
        /\ pc # "failed"
        /\ pc = "done" => SelectSeq(stdout, NotWhite) = ExpectedList

(***************************************************************************)
(* C2                                                                      *)
(***************************************************************************)
EveryLeafHasContent ==
    /\ NonBlank # {}
    /\ \A i \in NonBlank : ~IsCheckbox(i)
    /\ \A i \in NonBlank :
          IsStructural(i) => \E j \in NonBlank : IsContent(j) /\ i \in Ancestors(j)

ExpectedHeadings ==
    LET order == Ascending({i \in NonBlank : IsStructural(i)}) IN
    [n \in 1..Len(order) |-> makeHeader(Label(order[n]), Depth(order[n]))]

\* C2: when every structural line has a content-block line below it, the
\* structural lines are emitted as headings of depth+1 '#' characters, in
\* document order, and none is emitted as a list bullet.
C2_ContentEverywhereIsHeadings ==
    (EveryLeafHasContent /\ pc = "done") =>
        /\ SelectSeq(stdout, IsHeading) = ExpectedHeadings
        /\ \A n \in 1..Len(stdout) : ~IsBullet(stdout[n])

(***************************************************************************)
(* C3                                                                      *)
(***************************************************************************)
HasCheckbox == \E i \in NonBlank : IsCheckbox(i)

\* C3: an input with a checkbox line ends in the "Checkboxes not implemented"
\* stop and never in another way, and no line of the document is printed.
C3_CheckboxStops ==
    HasCheckbox =>
        /\ pc \in Terminal => pc = "exit"
        /\ stdout \in {<<>>, <<CheckboxError>>}

(***************************************************************************)
(* C4                                                                      *)
(***************************************************************************)
\* C4: an input without a non-blank line is converted without failure and the
\* output is exactly one blank line.
C4_EmptyInputOneBlankLine ==
    NonBlank = {} =>
        /\ pc # "failed"
        /\ pc = "done" => stdout = << <<>> >>

(***************************************************************************)
(* C5                                                                      *)
(***************************************************************************)
\* C5 as stated: Scenario A is rendered as the single heading ##Hello.
C5_ScenarioA_Heading ==
    (lines = ScenarioA /\ pc = "done") =>
        stdout = << <<"#", "#", "H", "e", "l", "l", "o">> >>

\* C5 as amended: Scenario A is converted without failure into the bullet
\* "* Hello" followed by a line of four spaces; no heading is emitted.
C5_ScenarioA_Bullet ==
    lines = ScenarioA =>
        /\ pc \notin {"failed", "exit"}
        /\ pc = "done" =>
              stdout = << <<"*", " ", "H", "e", "l", "l", "o">>, <<" ", " ", " ", " ">> >>

C5_Witness == lines = ScenarioA /\ pc = "done" /\ ev.kind = "print"

(***************************************************************************)
(* C6                                                                      *)
(***************************************************************************)
SomeText == <<"S", "o", "m", "e", " ", "t", "e", "x", "t">>

\* C6 as stated: Scenario B is a level-2 heading for Title, a blank line, the
\* body text and a blank line.
C6_ScenarioB_Heading ==
    (lines = ScenarioB /\ pc = "done") =>
        stdout = << <<"#", "#", "T", "i", "t", "l", "e">>, <<>>, SomeText, <<>> >>

\* C6 as amended: Scenario B is converted without failure into the bullet
\* "* Title", a line of four spaces, a blank line, the body text and a blank
\* line: body text at the depth of Title is its sibling and the pending item
\* is flushed by the list renderer.
C6_ScenarioB_Bullet ==
    lines = ScenarioB =>
        /\ pc \notin {"failed", "exit"}
        /\ pc = "done" =>
              stdout = << <<"*", " ", "T", "i", "t", "l", "e">>, <<" ", " ", " ", " ">>,
                          <<>>, SomeText, <<>> >>

C6_Witness ==
    /\ lines = ScenarioB
    /\ pc = "done"
    /\ visits = [i \in 0..1 |-> 1]

(***************************************************************************)
(* C7                                                                      *)
(***************************************************************************)
\* the first non-blank line at or after pos of depth <= level, or the sentinel
FirstStop(pos, level) ==
    LET stops == {i \in NonBlank : i >= pos /\ Depth(i) <= level} IN
    IF pos < 0 \/ stops = {} THEN EndIdx ELSE SetMin(stops)

C7_ConsumedDeeper ==
    ev.kind \in {"return", "content"} => \A i \in ev.consumed : Depth(i) > ev.level

C7_StopsAtFirstShallow ==
    ev.kind \in {"return", "empty"} => ev.newIdx = FirstStop(ev.start, ev.level)

\* C7: a processSection call consumes only lines deeper than its enclosing
\* level, no content-block run extends across a shallower line, and the call
\* returns the first line at or after its start that is not deeper.
C7_SectionStaysInside == C7_ConsumedDeeper /\ C7_StopsAtFirstShallow

(***************************************************************************)
(* C8                                                                      *)
(***************************************************************************)
C8_FlushAfterForcedIsHeading ==
    (ev.kind \in {"content", "return"} /\ ev.forced /\ ev.flush # "none")
        => ev.flush \in {"headers", "headersOfList"}

C8_ForcedReturnsFalse == (ev.kind = "return" /\ ev.forced) => ~ev.isList

C8_CollapsibleHasNoContent ==
    (ev.kind = "return" /\ ev.isList) => \A i \in ev.consumed : ~IsContent(i)

\* C8: once a content block was dispatched in an invocation, or a child call
\* returned collapsible = false, every later flush of the invocation uses the
\* heading renderer and the invocation returns collapsible = false; a call
\* that returns collapsible = true consumed no content-block line.
C8_ModeIsMonotonic ==
    /\ C8_FlushAfterForcedIsHeading
    /\ C8_ForcedReturnsFalse
    /\ C8_CollapsibleHasNoContent

(***************************************************************************)
(* C9                                                                      *)
(***************************************************************************)
EndsWith(l, suffix) ==
    Len(l) >= Len(suffix) /\ SubSeq(l, Len(l) - Len(suffix) + 1, Len(l)) = suffix

\* C9: when a content block is reached with sibling items pending, the flush
\* does not fail in either mode, every pending label is rendered into the
\* output before the content block, and the items are not pending any more.
C9_MidFlushCompletes ==
    (ev.kind = "content" /\ ev.pending # <<>>) =>
        /\ ev.flushErr = "none"
        /\ \A k \in 1..Len(ev.pending) :
              \E n \in 1..Len(ev.flushOut) : EndsWith(ev.flushOut[n], strip(ev.pending[k].line))
        /\ pc = "loop" =>
              /\ Top.out = ev.outBefore \o ev.flushOut \o ev.textout
              /\ Top.firstItem

(***************************************************************************)
(* C10                                                                     *)
(***************************************************************************)
C10_IterationAdvances ==
    (ev.kind \in {"content", "resume"} /\ pc # "failed")
        => (ev.newIdx = EndIdx \/ ev.newIdx > ev.oldIdx)

C10_RendererConsumes ==
    (ev.kind = "content" /\ pc # "failed") => ev.oldIdx \in ev.consumed

C10_ReturnNotEarlier ==
    ev.kind \in {"return", "empty"} => (ev.newIdx = EndIdx \/ ev.newIdx >= ev.start)

C10_NoLineTwice == \A i \in DOMAIN visits : visits[i] <= 1

C10_StepsBounded == steps <= 4 * Cardinality(NonBlank) + 4

C10_NeverStuck == pc \notin Terminal => CanStep

\* C10: with a non-blank first line every loop iteration moves to a later line
\* or to the sentinel, every content-block renderer consumes the line it was
\* dispatched on, no call returns a position before its start, no line is
\* processed twice, and the run takes at most 4 steps per non-blank line
\* (plus 4) and is never stuck before it ends, normally or in a fatal stop.
C10_Progress ==
    FirstNonBlank =>
        /\ C10_IterationAdvances
        /\ C10_RendererConsumes
        /\ C10_ReturnNotEarlier
        /\ C10_NoLineTwice
        /\ C10_StepsBounded
        /\ C10_NeverStuck

C10_Witness ==
    /\ FirstNonBlank
    /\ pc = "done"
    /\ Len(lines) >= 2
    /\ \A i \in DOMAIN visits : visits[i] = 1
    /\ \E i \in NonBlank : IsContent(i)
    /\ \E i \in NonBlank : IsStructural(i) /\ Depth(i) = 0

====
